---- MODULE Spec2Model ----
(***************************************************************************)
(* State-machine model of server.js of torrent_stream_server: the single   *)
(* active torrent (currentTorrent), its replacement and destruction, the   *)
(* tracked playback position, the status snapshot, the position report     *)
(* and the range stream handler.                                            *)
(*                                                                          *)
(* Node runs every handler and callback to completion on one thread, so a  *)
(* handler's synchronous part is one action.  An `await` whose promise is  *)
(* already resolved continues in a microtask, before any other request or  *)
(* engine callback runs: the continuation belongs to the same action.  An  *)
(* `await` on a destroy callback that the engine has yet to call splits    *)
(* the handler in two actions.                                              *)
(***************************************************************************)
EXTENDS Integers, Sequences, FiniteSets, TLC

\* ---------------------------------------------------------------- bounds
\* add requests issued during a run; request r adds the torrent handle r
MaxAdds == 2
\* add requests issued during a run of the lifecycle alone (SpecRace)
MaxRaceAdds == 3

\* add requests issued during a run of the stream server (SpecStream)
MaxStreamAdds == 1
\* stream requests issued during a run
MaxStreams == 2

\* ------------------------------------------------------ program constants
\* currentPlaybackPosition.fileIndex === null
NullIndex == -1
\* a field the body of a position report does not have: currentTime or duration
\* is undefined.  undefined > 0 is false, as is -1 > 0.
Undefined == -1
\* 5 * 1024 * 1024: the playback-ahead budget in bytes
AheadBytes == 5242880
\* the cap on the urgent window, in pieces
AheadCap == 50

Requests == 1..MaxRaceAdds
Torrents == 1..MaxRaceAdds

\* The torrents a magnet link can name: the engine learns pieceLength and the
\* file lengths when the metadata arrives.  Files lie contiguously, in order.
\* files holds the file lengths, exts the extensions of the file names.
Layouts ==
  << [pieceLength |-> 4, files |-> <<6, 2>>, exts |-> <<".mp4", ".txt">>],
     [pieceLength |-> 4, files |-> <<2>>, exts |-> <<".mkv">>],
     [pieceLength |-> 16384, files |-> <<10000>>, exts |-> <<".mp4">>],
     [pieceLength |-> 4, files |-> <<3, 5, 4>>, exts |-> <<".srt", ".mp4", ".txt">>],
     [pieceLength |-> 2, files |-> <<120>>, exts |-> <<".mp4">>],
     [pieceLength |-> 1048576, files |-> <<8388608>>, exts |-> <<".mkv">>],
     [pieceLength |-> 1048576, files |-> <<104857600>>, exts |-> <<".mp4">>] >>

\* magnetOrHash of an add request that has one: m names the torrent Layouts[m].
\* The magnets the runs with playback use, and those the stream runs use.
Magnets == {1, 2}
StreamMagnets == {1, 3}
\* The magnets of the runs over one downloaded torrent: files that start and end
\* inside a piece and on a piece boundary (1, 4), a file of 60 pieces (5), and
\* pieces of 1 MiB (6), a file of 100 MiB (7)
PieceMagnets == {1, 4, 5, 6, 7}

Streams == 1..MaxStreams

\* the duration a position report carries: 0 (unknown) or 2
Durations == {0, 2}

\* the currentTime a position report carries: the middle and the end of the media
CurrentTimes == {1, 2}

\* the position reports of the runs over one downloaded torrent: currentTime in
\* eighths of the duration, from the start of the media to its end
PieceDurations == {8}
PieceTimes == 0..8

\* The position reports of those runs, << currentTime, duration >>: the eighths,
\* the middle of a media of 60 s, a currentTime past the duration (10 and 16 of
\* 8), and bodies without the field duration, with and without the field
\* currentTime.  The quotients currentTime / duration of these
\* reports are exact in floating point.
PieceReports ==
  {<< ct, d >> : ct \in PieceTimes, d \in PieceDurations}
    \cup {<< 30, 60 >>}
    \cup {<< 10, 8 >>, << 16, 8 >>}
    \cup {<< 1, Undefined >>, << Undefined, Undefined >>}

\* the fileIndex a position report carries: 2 indexes no file of a layout of one
\* or two files
FileIndexes == 0..2

NoResp == [op |-> "none"]

\* a stream request that has not arrived; destroys counts the stream.destroy()
\* calls its cleanup has made
NoStream == [res |-> "none", stream |-> "none", torrent |-> 0, cleaned |-> FALSE, destroys |-> 0]

\* who awaits a destroy callback: the add request r, or a delete request
NoWaiter == [kind |-> "none", id |-> 0]
AddWaiter(r) == [kind |-> "add", id |-> r]
DelWaiter == [kind |-> "del", id |-> 0]

VARIABLES
  currentTorrent,   \* 0 (null) or the handle the server holds
  magnet,           \* magnet[t]: the magnet the handle t was added with (0: not added)
  tstate,           \* tstate[t]: "absent", "fetching" (added, no metadata), "ready"
  destroyed,        \* destroyed[t]: the engine's torrent.destroyed flag
  bitfield,         \* bitfield[t]: the pieces of t that are downloaded and verified
  destroyCb,        \* destroyCb[t]: who awaits the destroy callback of t
  tempDir,          \* the torrents that have bytes in TEMP_DIR
  addPc,            \* addPc[r]: "new", "awaitDestroy", "waiting", "done"
  timer,            \* timer[r]: "unset", "armed", "fired", "cleared"
  addResp,          \* addResp[r]: the responses sent for add request r
  currentPlaybackPosition,  \* [fileIndex, bytePosition]
  streams,          \* streams[k]: the response and the engine read stream of the
                    \* stream request k
  resp,             \* what the latest step answered on a synchronous endpoint
                    \* (status, position report, stream, a rejected add): NoResp
                    \* when the step answered none
  crashed           \* an exception escaped a callback: the process is gone

vars == << currentTorrent, magnet, tstate, destroyed, bitfield, destroyCb, tempDir, addPc,
           timer, addResp, currentPlaybackPosition, streams, resp, crashed >>

\* ------------------------------------------------------------ the engine
\* torrent.ready: set when the metadata arrives, kept when the torrent is destroyed
IsReady(t) == tstate[t] = "ready"

\* a position handler that looks at currentTorrent alone, not at its ready flag
NoActiveTorrent_IgnoresReady == currentTorrent = 0

\* !currentTorrent || !currentTorrent.ready
NoActiveTorrent == IF currentTorrent = 0 THEN TRUE ELSE ~IsReady(currentTorrent)

\* !currentTorrent || !currentTorrent.pieces, !currentTorrent || !currentTorrent.bitfield:
\* the engine creates pieces and bitfield when the metadata arrives
NoPieces == IF currentTorrent = 0 THEN TRUE ELSE ~IsReady(currentTorrent)

\* a torrent the engine holds and has not destroyed
Live(t) == tstate[t] # "absent" /\ ~destroyed[t]

Layout(t) == Layouts[magnet[t]]

\* torrent.pieceLength
PieceLength(t) == Layout(t).pieceLength

\* torrent.files of a handle with the state st, the destroyed flag ds, the magnet m:
\* empty until the metadata arrives and again once the torrent is destroyed
FilesOf(st, ds, m) ==
  IF st = "ready" /\ ~ds THEN Layouts[m].files ELSE << >>

Files(t) == FilesOf(tstate[t], destroyed[t], magnet[t])

RECURSIVE SumTo(_, _)
SumTo(s, n) == IF n = 0 THEN 0 ELSE SumTo(s, n - 1) + s[n]

\* file.offset of the file at the 0-based index i of files
FileOffset(files, i) == SumTo(files, i)

\* torrent.length
TotalLength(t) == SumTo(Layout(t).files, Len(Layout(t).files))

\* the piece indices of t
Pieces(t) == 0..((TotalLength(t) + PieceLength(t) - 1) \div PieceLength(t) - 1)

\* torrent.bitfield.get(p): false outside the bitfield
BitGet(t, p) == p \in bitfield[t]

\* files[i] for a 0-based i: is there such a file
HasFile(t, i) == i >= 0 /\ i < Len(Files(t))

Min(a, b) == IF a <= b THEN a ELSE b
Max(a, b) == IF a >= b THEN a ELSE b

\* ------------------------------------------------------------------ Init
Init ==
  /\ currentTorrent = 0
  /\ magnet = [t \in Torrents |-> 0]
  /\ tstate = [t \in Torrents |-> "absent"]
  /\ destroyed = [t \in Torrents |-> FALSE]
  /\ bitfield = [t \in Torrents |-> {}]
  /\ destroyCb = [t \in Torrents |-> NoWaiter]
  /\ tempDir = {}
  /\ addPc = [r \in Requests |-> "new"]
  /\ timer = [r \in Requests |-> "unset"]
  /\ addResp = [r \in Requests |-> << >>]
  /\ currentPlaybackPosition = [fileIndex |-> NullIndex, bytePosition |-> 0]
  /\ streams = [k \in Streams |-> NoStream]
  /\ resp = NoResp
  /\ crashed = FALSE

\* ------------------------------------------------- torrent lifecycle

\* cleanTempDir: removes every entry of TEMP_DIR
cleanTempDir == tempDir' = {}

\* torrentToDestroy.destroy({ destroyStore: true }, cb) on the handle t, w awaiting
\* cb.  The engine sets the destroyed flag at once, releases the files and the
\* store, and calls cb later.  What it does with cb when t is already destroyed
\* (after a fault) is the engine's choice: it calls cb later, or never.
EngineDestroy(t, w) ==
  \/ /\ ~destroyed[t]
     /\ destroyed' = [destroyed EXCEPT ![t] = TRUE]
     /\ bitfield' = [bitfield EXCEPT ![t] = {}]
     /\ destroyCb' = [destroyCb EXCEPT ![t] = w]
  \/ /\ destroyed[t]
     /\ destroyCb' = [destroyCb EXCEPT ![t] = w]
     /\ UNCHANGED << destroyed, bitfield >>
  \/ /\ destroyed[t]
     /\ UNCHANGED << destroyed, bitfield, destroyCb >>

\* a destroyCurrentTorrent that leaves the handle in currentTorrent while the
\* engine destroys it
DestroyCurrentTorrentBegin_KeepsHandle(w) ==
  /\ currentTorrent # 0
  /\ currentTorrent' = currentTorrent
  /\ EngineDestroy(currentTorrent, w)

\* destroyCurrentTorrent when currentTorrent is set: the handle is taken out of
\* currentTorrent and destroyed; the promise resolves in the destroy callback
DestroyCurrentTorrentBegin(w) ==
  /\ currentTorrent # 0
  /\ currentTorrent' = 0
  /\ EngineDestroy(currentTorrent, w)

\* POST /api/torrent from client.add on: the new handle becomes currentTorrent,
\* its error and ready handlers are registered and the 30 s timer is armed;
\* if client.add throws, the catch block answers 500
ClientAdd(r) ==
  \/ /\ currentTorrent' = r
     /\ tstate' = [tstate EXCEPT ![r] = "fetching"]
     /\ timer' = [timer EXCEPT ![r] = "armed"]
     /\ addPc' = [addPc EXCEPT ![r] = "waiting"]
     /\ UNCHANGED addResp
  \/ /\ addResp' = [addResp EXCEPT ![r] = << [status |-> 500, torrent |-> 0, files |-> << >>] >>]
     /\ addPc' = [addPc EXCEPT ![r] = "done"]
     /\ UNCHANGED << currentTorrent, tstate, timer >>

\* POST /api/torrent without the body field magnetOrHash: 400, nothing else
AddTorrentRejected ==
  /\ ~crashed
  /\ resp' = [op |-> "add", status |-> 400]
  /\ UNCHANGED << currentTorrent, magnet, tstate, destroyed, bitfield, destroyCb, tempDir,
                  addPc, timer, addResp, currentPlaybackPosition, streams, crashed >>

\* POST /api/torrent with the body field magnetOrHash = m, up to the first point
\* where the handler has to wait
AddTorrent(r, m) ==
  /\ ~crashed
  /\ addPc[r] = "new"
  /\ \A q \in Requests : q < r => addPc[q] # "new"
  /\ magnet' = [magnet EXCEPT ![r] = m]
  /\ \/ /\ DestroyCurrentTorrentBegin(AddWaiter(r))
        /\ addPc' = [addPc EXCEPT ![r] = "awaitDestroy"]
        /\ UNCHANGED << tstate, timer, addResp >>
     \/ /\ currentTorrent = 0
        /\ ClientAdd(r)
        /\ UNCHANGED << destroyed, bitfield, destroyCb >>
  /\ UNCHANGED << tempDir, crashed, currentPlaybackPosition >>
  /\ resp' = NoResp
  /\ UNCHANGED streams

\* DELETE /api/torrent: with no current torrent the handler answers at once,
\* else it waits for the destroy callback
DeleteTorrent ==
  /\ ~crashed
  /\ \/ /\ DestroyCurrentTorrentBegin(DelWaiter)
        /\ resp' = NoResp
     \/ /\ currentTorrent = 0
        /\ resp' = [op |-> "delete", status |-> 200]
        /\ UNCHANGED << currentTorrent, destroyed, bitfield, destroyCb >>
  /\ UNCHANGED << magnet, tstate, tempDir, addPc, timer, addResp, crashed,
                  currentPlaybackPosition, streams >>

\* the destroy callback of t: cleanTempDir(), resolve(), and the awaiting handler
\* continues (an add request adds its torrent, a delete request answers)
DestroyCallback(t) ==
  /\ ~crashed
  /\ destroyCb[t] # NoWaiter
  /\ cleanTempDir
  /\ destroyCb' = [destroyCb EXCEPT ![t] = NoWaiter]
  /\ \/ /\ destroyCb[t].kind = "add"
        /\ ClientAdd(destroyCb[t].id)
        /\ resp' = NoResp
     \/ /\ destroyCb[t].kind = "del"
        /\ resp' = [op |-> "delete", status |-> 200]
        /\ UNCHANGED << currentTorrent, tstate, timer, addPc, addResp >>
  /\ UNCHANGED << magnet, destroyed, bitfield, crashed, currentPlaybackPosition, streams >>

\* a 'ready' handler whose second res.json goes out on a request the timer has
\* answered
OnReady_AnswersAgain(r) ==
  /\ ~crashed
  /\ tstate[r] = "fetching"
  /\ ~destroyed[r]
  /\ tstate' = [tstate EXCEPT ![r] = "ready"]
  /\ \/ /\ currentTorrent = 0
        /\ crashed' = TRUE
        /\ UNCHANGED << timer, addResp, addPc >>
     \/ /\ currentTorrent # 0
        /\ timer' = [timer EXCEPT ![r] = IF @ = "armed" THEN "cleared" ELSE @]
        /\ addResp' = [addResp EXCEPT ![r] =
              Append(@, [status |-> 200, torrent |-> currentTorrent,
                         files |-> FilesOf(tstate'[currentTorrent], destroyed[currentTorrent],
                                           magnet[currentTorrent])])]
        /\ addPc' = [addPc EXCEPT ![r] = "done"]
        /\ UNCHANGED crashed
  /\ UNCHANGED << currentTorrent, magnet, destroyed, bitfield, destroyCb, tempDir,
                  currentPlaybackPosition >>
  /\ resp' = NoResp
  /\ UNCHANGED streams

\* the 'ready' event of the torrent that request r added: the metadata is there;
\* the first handler logs currentTorrent.name, the second clears the timer and
\* answers with currentTorrent's name, infoHash and files.  Reading a property of
\* null throws, and so does answering a request that is already answered: the
\* exception escapes the event and ends the process.
OnReady(r) ==
  /\ ~crashed
  /\ tstate[r] = "fetching"
  /\ ~destroyed[r]
  /\ tstate' = [tstate EXCEPT ![r] = "ready"]
  /\ \/ /\ currentTorrent = 0
        /\ crashed' = TRUE
        /\ UNCHANGED << timer, addResp, addPc >>
     \/ /\ currentTorrent # 0
        /\ addResp[r] # << >>
        /\ timer' = [timer EXCEPT ![r] = IF @ = "armed" THEN "cleared" ELSE @]
        /\ crashed' = TRUE
        /\ UNCHANGED << addResp, addPc >>
     \/ /\ currentTorrent # 0
        /\ addResp[r] = << >>
        /\ timer' = [timer EXCEPT ![r] = IF @ = "armed" THEN "cleared" ELSE @]
        /\ addResp' = [addResp EXCEPT ![r] =
              << [status |-> 200, torrent |-> currentTorrent,
                  files |-> FilesOf(tstate'[currentTorrent], destroyed[currentTorrent],
                                    magnet[currentTorrent])] >>]
        /\ addPc' = [addPc EXCEPT ![r] = "done"]
        /\ UNCHANGED crashed
  /\ UNCHANGED << currentTorrent, magnet, destroyed, bitfield, destroyCb, tempDir,
                  currentPlaybackPosition >>
  /\ resp' = NoResp
  /\ UNCHANGED streams

\* the 30 s timer of request r fires: 408 unless currentTorrent.ready
OnTimeout(r) ==
  /\ ~crashed
  /\ timer[r] = "armed"
  /\ timer' = [timer EXCEPT ![r] = "fired"]
  /\ \/ /\ currentTorrent = 0
        /\ crashed' = TRUE
        /\ UNCHANGED << addResp, addPc >>
     \/ /\ currentTorrent # 0
        /\ IsReady(currentTorrent)
        /\ UNCHANGED << addResp, addPc, crashed >>
     \/ /\ currentTorrent # 0
        /\ ~IsReady(currentTorrent)
        /\ addResp[r] = << >>
        /\ addResp' = [addResp EXCEPT ![r] = << [status |-> 408, torrent |-> 0, files |-> << >>] >>]
        /\ addPc' = [addPc EXCEPT ![r] = "done"]
        /\ UNCHANGED crashed
  /\ UNCHANGED << currentTorrent, magnet, tstate, destroyed, bitfield, destroyCb, tempDir,
                  currentPlaybackPosition >>
  /\ resp' = NoResp
  /\ UNCHANGED streams

\* the 'error' event of t: the engine has destroyed the faulted torrent and
\* released its store; the handler logs the message and does nothing else
OnError(t) ==
  /\ ~crashed
  /\ Live(t)
  /\ destroyed' = [destroyed EXCEPT ![t] = TRUE]
  /\ bitfield' = [bitfield EXCEPT ![t] = {}]
  /\ tempDir' = tempDir \ {t}
  /\ UNCHANGED << currentTorrent, magnet, tstate, destroyCb, addPc, timer, addResp,
                  crashed, currentPlaybackPosition >>
  /\ resp' = NoResp
  /\ UNCHANGED streams

\* the engine downloads and verifies the piece p of t and writes it to TEMP_DIR
PieceArrives(t) ==
  /\ ~crashed
  /\ Live(t)
  /\ IsReady(t)
  /\ \E p \in Pieces(t) \ bitfield[t] : bitfield' = [bitfield EXCEPT ![t] = @ \cup {p}]
  /\ tempDir' = tempDir \cup {t}
  /\ UNCHANGED << currentTorrent, magnet, tstate, destroyed, destroyCb, addPc, timer, addResp,
                  crashed, currentPlaybackPosition >>
  /\ resp' = NoResp
  /\ UNCHANGED streams

\* the add and delete requests and their callbacks, in a run with at most n add
\* requests for the magnets M
Control(n, M) ==
  \/ AddTorrentRejected
  \/ \E r \in 1..n, m \in M : AddTorrent(r, m)
  \/ DeleteTorrent
  \/ \E t \in Torrents : DestroyCallback(t)
  \/ \E r \in Requests : OnReady(r)
  \/ \E r \in Requests : OnTimeout(r)
  \/ \E t \in Torrents : OnError(t)

\* the lifecycle steps: those, and the download
Lifecycle(n, M) ==
  \/ Control(n, M)
  \/ \E t \in Torrents : PieceArrives(t)

\* ------------------------------------------------ playback and status
\* torrent.files[i] of a torrent with metadata: the file's offset and length
FileAt(t, i) == [offset |-> FileOffset(Files(t), i), length |-> Files(t)[i + 1]]

CeilDiv(a, b) == (a + b - 1) \div b

\* prioritizePiecesFrom(file, startByte): the arguments of the critical() call on
\* currentTorrent, << >> when the function returns without calling it
prioritizePiecesFrom(file, startByte) ==
  IF NoPieces THEN << >>
  ELSE LET pieceLength == PieceLength(currentTorrent)
           absoluteStart == file.offset + startByte
           fileEnd == file.offset + file.length
           startPiece == absoluteStart \div pieceLength
           endPiece == fileEnd \div pieceLength
           piecesToPrioritize == Min(CeilDiv(AheadBytes, pieceLength), AheadCap)
           criticalEnd == Min(startPiece + piecesToPrioritize, endPiece)
       IN << startPiece, criticalEnd >>

\* the while loop of getBufferAhead, from the piece currentPiece on
RECURSIVE BufferLoop(_, _, _, _, _, _)
BufferLoop(t, pieceLength, absoluteStart, fileEnd, endPiece, currentPiece) ==
  IF currentPiece <= endPiece /\ BitGet(t, currentPiece)
  THEN LET pieceStart == currentPiece * pieceLength
           pieceEnd == pieceStart + pieceLength
           rangeStart == Max(pieceStart, absoluteStart)
           rangeEnd == Min(pieceEnd, fileEnd)
       IN (rangeEnd - rangeStart)
          + BufferLoop(t, pieceLength, absoluteStart, fileEnd, endPiece, currentPiece + 1)
  ELSE 0

\* an estimate that counts each piece from its first byte, not from the position
getBufferAhead_FromPieceStart(file, currentByte) ==
  IF NoPieces THEN 0
  ELSE LET pieceLength == PieceLength(currentTorrent)
           absoluteStart == file.offset + currentByte
           fileEnd == file.offset + file.length
       IN BufferLoop(currentTorrent, pieceLength, 0, fileEnd,
                     fileEnd \div pieceLength, absoluteStart \div pieceLength)

\* an estimate that skips the pieces that are missing and counts those after them
getBufferAhead_SkipsMissing(file, currentByte) ==
  IF NoPieces THEN 0
  ELSE LET pieceLength == PieceLength(currentTorrent)
           absoluteStart == file.offset + currentByte
           fileEnd == file.offset + file.length
           have == {p \in (absoluteStart \div pieceLength)..(fileEnd \div pieceLength) :
                      BitGet(currentTorrent, p)}
           Bytes(p) == Min((p + 1) * pieceLength, fileEnd) - Max(p * pieceLength, absoluteStart)
           RECURSIVE Sum(_)
           Sum(ps) == IF ps = {} THEN 0
                      ELSE LET q == CHOOSE q \in ps : TRUE IN Bytes(q) + Sum(ps \ {q})
       IN Sum(have)

\* getBufferAhead(file, currentByte)
getBufferAhead(file, currentByte) ==
  IF NoPieces THEN 0
  ELSE LET pieceLength == PieceLength(currentTorrent)
           absoluteStart == file.offset + currentByte
           fileEnd == file.offset + file.length
       IN BufferLoop(currentTorrent, pieceLength, absoluteStart, fileEnd,
                     fileEnd \div pieceLength, absoluteStart \div pieceLength)

\* the piece map of the status handler for the file of the torrent t
PieceMap(t, file) ==
  LET pieceLength == PieceLength(t)
      fileEnd == file.offset + file.length
      startPiece == file.offset \div pieceLength
      endPiece == fileEnd \div pieceLength
  IN [k \in 1..(endPiece - startPiece + 1) |-> BitGet(t, startPiece + k - 1)]

\* the body of an active status response, read from the handle torrent
StatusBody(torrent) ==
  LET tracked == /\ currentPlaybackPosition.fileIndex # NullIndex
                 /\ HasFile(torrent, currentPlaybackPosition.fileIndex)
      file == FileAt(torrent, currentPlaybackPosition.fileIndex)
  IN [op |-> "status",
      active |-> TRUE,
      torrent |-> torrent,
      infoHash |-> magnet[torrent],
      ready |-> IsReady(torrent),
      bufferAhead |-> IF tracked
                      THEN getBufferAhead(file, currentPlaybackPosition.bytePosition)
                      ELSE 0,
      pieceMap |-> IF tracked THEN PieceMap(torrent, file) ELSE << >>,
      currentPosition |-> currentPlaybackPosition,
      files |-> [i \in 1..Len(Files(torrent)) |->
                   [torrent |-> torrent, index |-> i - 1, length |-> Files(torrent)[i]]]]

\* a status handler that answers active: false until the torrent is Ready, as
\* the other handlers test it
GetStatus_InactiveUntilReady ==
  /\ ~crashed
  /\ \/ /\ NoActiveTorrent
        /\ resp' = [op |-> "status", active |-> FALSE]
     \/ /\ ~NoActiveTorrent
        /\ resp' = StatusBody(currentTorrent)
  /\ UNCHANGED << currentTorrent, magnet, tstate, destroyed, bitfield, destroyCb, tempDir,
                  addPc, timer, addResp, currentPlaybackPosition, streams, crashed >>

\* a status handler that forgets the tracked position when it finds no torrent
GetStatus_ForgetsPosition ==
  /\ ~crashed
  /\ \/ /\ currentTorrent = 0
        /\ resp' = [op |-> "status", active |-> FALSE]
        /\ currentPlaybackPosition' = [fileIndex |-> NullIndex, bytePosition |-> 0]
     \/ /\ currentTorrent # 0
        /\ resp' = StatusBody(currentTorrent)
        /\ UNCHANGED currentPlaybackPosition
  /\ UNCHANGED << currentTorrent, magnet, tstate, destroyed, bitfield, destroyCb, tempDir,
                  addPc, timer, addResp, streams, crashed >>

\* GET /api/status
GetStatus ==
  /\ ~crashed
  /\ \/ /\ currentTorrent = 0
        /\ resp' = [op |-> "status", active |-> FALSE]
     \/ /\ currentTorrent # 0
        /\ resp' = StatusBody(currentTorrent)
  /\ UNCHANGED << currentTorrent, magnet, tstate, destroyed, bitfield, destroyCb, tempDir,
                  addPc, timer, addResp, currentPlaybackPosition, streams, crashed >>

\* a conversion that rounds the quotient up
BytePosition_RoundsUp(currentTime, duration, length) ==
  IF duration > 0
  THEN currentTime * (length \div duration)
         + (currentTime * (length % duration) + duration - 1) \div duration
  ELSE 0

\* a conversion that takes duration / currentTime for the played fraction
BytePosition_InvertedRatio(currentTime, duration, length) ==
  IF duration > 0 /\ currentTime > 0
  THEN duration * (length \div currentTime) + (duration * (length % currentTime)) \div currentTime
  ELSE 0

\* the byte position of a position report: floor((currentTime / duration) * length)
\* when duration > 0, else 0.  Durations holds powers of two only, for which the
\* floating-point quotient is exact.
\* The quotient of currentTime * length by duration is taken in two parts, so
\* that no product passes 2^31 for a file of 100 MiB.
BytePosition(currentTime, duration, length) ==
  IF duration > 0
  THEN currentTime * (length \div duration) + (currentTime * (length % duration)) \div duration
  ELSE 0

\* a tracker that stores the byte position and keeps the file index it had
TrackedPosition_KeepsIndex(fileIndex, bytePosition) ==
  [fileIndex |-> currentPlaybackPosition.fileIndex, bytePosition |-> bytePosition]

\* currentPlaybackPosition = { fileIndex, bytePosition }: one assignment of one object
TrackedPosition(fileIndex, bytePosition) ==
  [fileIndex |-> fileIndex, bytePosition |-> bytePosition]

\* the answer of a position report
PositionResp(status, error, fileIndex, currentTime, duration, bytePosition, window) ==
  [op |-> "position", status |-> status, error |-> error, fileIndex |-> fileIndex,
   currentTime |-> currentTime, duration |-> duration,
   bytePosition |-> bytePosition, critical |-> window]

\* POST /api/playback-position with the body { fileIndex, currentTime, duration }
PostPlaybackPosition(fileIndex, currentTime, duration) ==
  /\ ~crashed
  /\ \/ /\ NoActiveTorrent
        /\ resp' = PositionResp(404, "No active torrent", fileIndex, currentTime, duration, 0, << >>)
        /\ UNCHANGED currentPlaybackPosition
     \/ /\ ~NoActiveTorrent
        /\ ~HasFile(currentTorrent, fileIndex)
        /\ resp' = PositionResp(404, "File not found", fileIndex, currentTime, duration, 0, << >>)
        /\ UNCHANGED currentPlaybackPosition
     \/ /\ ~NoActiveTorrent
        /\ HasFile(currentTorrent, fileIndex)
        /\ LET file == FileAt(currentTorrent, fileIndex)
               bytePosition == BytePosition(currentTime, duration, file.length)
           IN /\ currentPlaybackPosition' = TrackedPosition(fileIndex, bytePosition)
              /\ resp' = PositionResp(200, "", fileIndex, currentTime, duration, bytePosition,
                                      prioritizePiecesFrom(file, bytePosition))
  /\ UNCHANGED << currentTorrent, magnet, tstate, destroyed, bitfield, destroyCb, tempDir,
                  addPc, timer, addResp, streams, crashed >>

Playback ==
  \/ GetStatus
  \/ \E fileIndex \in FileIndexes, currentTime \in CurrentTimes, duration \in Durations :
        PostPlaybackPosition(fileIndex, currentTime, duration)

\* ------------------------------------------------------ range streaming
\* A JavaScript number that is an integer or NaN.  Strings are sequences of
\* one-character strings.
Num(n) == [nan |-> FALSE, v |-> n]
NaN == [nan |-> TRUE, v |-> 0]

Digits == <<"0", "1", "2", "3", "4", "5", "6", "7", "8", "9">>
IsDigit(c) == \E d \in 1..10 : Digits[d] = c
DigitValue(c) == (CHOOSE d \in 1..10 : Digits[d] = c) - 1

\* String(n) of an integer n >= 0
RECURSIVE Dec(_)
Dec(n) == IF n < 10 THEN << Digits[n + 1] >> ELSE Dec(n \div 10) \o << Digits[(n % 10) + 1] >>

\* String(x) of a number, as a template literal inserts it
NumToString(x) ==
  IF x.nan THEN <<"N", "a", "N">>
  ELSE IF x.v < 0 THEN <<"-">> \o Dec(0 - x.v) ELSE Dec(x.v)

\* the digits at the head of s, read as a number from the value acc on
RECURSIVE ReadDigits(_, _)
ReadDigits(s, acc) ==
  IF s # << >> /\ IsDigit(Head(s)) THEN ReadDigits(Tail(s), acc * 10 + DigitValue(Head(s)))
  ELSE acc

RECURSIVE SkipSpaces(_)
SkipSpaces(s) == IF s # << >> /\ Head(s) = " " THEN SkipSpaces(Tail(s)) ELSE s

\* parseInt(s, 10): leading blanks and one sign are skipped, the digits that
\* follow are read, anything after them is ignored; NaN when no digit follows
parseInt(s) ==
  LET t == SkipSpaces(s)
      signed == t # << >> /\ Head(t) \in {"+", "-"}
      u == IF signed THEN Tail(t) ELSE t
  IN IF u = << >> \/ ~IsDigit(Head(u)) THEN NaN
     ELSE IF signed /\ Head(t) = "-" THEN Num(0 - ReadDigits(u, 0))
     ELSE Num(ReadDigits(u, 0))

\* does pat occur in s at the position i
OccursAt(s, pat, i) ==
  /\ i + Len(pat) - 1 <= Len(s)
  /\ \A j \in 1..Len(pat) : s[i + j - 1] = pat[j]

\* s.replace(pat, ''): s without the first occurrence of pat
RemoveFirst(s, pat) ==
  IF \E i \in 1..Len(s) : OccursAt(s, pat, i)
  THEN LET i == CHOOSE i \in 1..Len(s) :
                   OccursAt(s, pat, i) /\ \A j \in 1..(i - 1) : ~OccursAt(s, pat, j)
       IN SubSeq(s, 1, i - 1) \o SubSeq(s, i + Len(pat), Len(s))
  ELSE s

\* s.split(c)
RECURSIVE Split(_, _)
Split(s, c) ==
  IF \E i \in 1..Len(s) : s[i] = c
  THEN LET i == CHOOSE i \in 1..Len(s) : s[i] = c /\ \A j \in 1..(i - 1) : s[j] # c
       IN << SubSeq(s, 1, i - 1) >> \o Split(SubSeq(s, i + 1, Len(s)), c)
  ELSE << s >>

BytesEq == <<"b", "y", "t", "e", "s", "=">>

\* a ranged branch whose missing end defaults to the file size
RangeOf_EndDefaultsToSize(range, fileSize) ==
  LET parts == Split(RemoveFirst(range, BytesEq), "-")
      start == parseInt(parts[1])
      end == IF Len(parts) >= 2 /\ parts[2] # << >> THEN parseInt(parts[2])
             ELSE Num(fileSize)
  IN [start |-> start, end |-> end]

\* the start and the end the ranged branch computes from the Range header
RangeOf(range, fileSize) ==
  LET parts == Split(RemoveFirst(range, BytesEq), "-")
      start == parseInt(parts[1])
      end == IF Len(parts) >= 2 /\ parts[2] # << >> THEN parseInt(parts[2])
             ELSE Num(fileSize - 1)
  IN [start |-> start, end |-> end]

\* (end - start) + 1 in floating point: NaN when either is NaN
ChunkSize(start, end) ==
  IF start.nan \/ end.nan THEN NaN ELSE Num((end.v - start.v) + 1)

\* `bytes ${start}-${end}/${fileSize}`
ContentRange(start, end, fileSize) ==
  <<"b", "y", "t", "e", "s", " ">> \o NumToString(start) \o <<"-">> \o NumToString(end)
     \o <<"/">> \o Dec(fileSize)

\* contentTypes[ext] || 'application/octet-stream'
ContentType(ext) ==
  CASE ext = ".mp4" -> "video/mp4"
    [] ext = ".mkv" -> "video/x-matroska"
    [] ext = ".avi" -> "video/x-msvideo"
    [] ext = ".webm" -> "video/webm"
    [] ext = ".mov" -> "video/quicktime"
    [] ext = ".wmv" -> "video/x-ms-wmv"
    [] ext = ".flv" -> "video/x-flv"
    [] ext = ".m4v" -> "video/x-m4v"
    [] OTHER -> "application/octet-stream"

\* the answer of a stream request: the status line and headers written, and the
\* arguments of createReadStream (whole: no arguments)
StreamResp(status, error, param, range, contentRange, acceptRanges, contentLength, contentType, read) ==
  [op |-> "stream", status |-> status, error |-> error, param |-> param, range |-> range,
   contentRange |-> contentRange, acceptRanges |-> acceptRanges,
   contentLength |-> contentLength, contentType |-> contentType, read |-> read]

StreamRefused(error, param, range) ==
  StreamResp(404, error, param, range, << >>, "", NaN, "", [whole |-> FALSE, start |-> NaN, end |-> NaN])

\* a handler that takes the ranged branch whether or not a header came
HasRange_Always(range) == TRUE

\* if (range): the header is there and not the empty string
HasRange(range) == range # << >>

\* files[fileIndex] for the number parseInt gave: no file for NaN
HasFileNum(t, x) == IF x.nan THEN FALSE ELSE HasFile(t, x.v)

\* handleStream(stream): the cleanup is registered for 'close' and 'finish' of
\* the response and for 'error' of the stream, and the stream is piped
handleStream(k) ==
  streams' = [streams EXCEPT ![k] =
                [res |-> "open", stream |-> "open", torrent |-> currentTorrent,
                 cleaned |-> FALSE, destroys |-> 0]]

\* GET /stream/:fileIndex with the path parameter param and the Range header
\* range (<< >>: no header)
GetStream(k, param, range) ==
  /\ ~crashed
  /\ streams[k].res = "none"
  /\ \A j \in Streams : j < k => streams[j].res # "none"
  /\ \/ /\ NoActiveTorrent
        /\ resp' = StreamRefused("No active torrent", param, range)
        /\ UNCHANGED streams
     \/ /\ ~NoActiveTorrent
        /\ ~HasFileNum(currentTorrent, parseInt(param))
        /\ resp' = StreamRefused("File not found", param, range)
        /\ UNCHANGED streams
     \/ /\ ~NoActiveTorrent
        /\ HasFileNum(currentTorrent, parseInt(param))
        /\ HasRange(range)
        /\ LET fileIndex == parseInt(param).v
               fileSize == Files(currentTorrent)[fileIndex + 1]
               contentType == ContentType(Layout(currentTorrent).exts[fileIndex + 1])
               r == RangeOf(range, fileSize)
           IN resp' = StreamResp(206, "", param, range,
                                 ContentRange(r.start, r.end, fileSize), "bytes",
                                 ChunkSize(r.start, r.end), contentType,
                                 [whole |-> FALSE, start |-> r.start, end |-> r.end])
        /\ handleStream(k)
     \/ /\ ~NoActiveTorrent
        /\ HasFileNum(currentTorrent, parseInt(param))
        /\ ~HasRange(range)
        /\ LET fileIndex == parseInt(param).v
               fileSize == Files(currentTorrent)[fileIndex + 1]
               contentType == ContentType(Layout(currentTorrent).exts[fileIndex + 1])
           IN resp' = StreamResp(200, "", param, range, << >>, "", Num(fileSize),
                                 contentType, [whole |-> TRUE, start |-> NaN, end |-> NaN])
        /\ handleStream(k)
  /\ UNCHANGED << currentTorrent, magnet, tstate, destroyed, bitfield, destroyCb, tempDir,
                  addPc, timer, addResp, currentPlaybackPosition, crashed >>

\* a cleanup that sets its flag and leaves the read stream as it is
cleanup_NoDestroy(k, res) ==
  streams' = [streams EXCEPT ![k] = [@ EXCEPT !.res = res, !.cleaned = TRUE]]

\* a cleanup over a stream held in a variable all requests share: it destroys
\* the read stream of every request
cleanup_AllStreams(k, res) ==
  streams' = [j \in Streams |->
                IF j = k
                THEN [streams[j] EXCEPT !.res = res,
                                        !.stream = IF streams[j].cleaned THEN @ ELSE "destroyed",
                                        !.destroys = IF streams[j].cleaned THEN @ ELSE @ + 1,
                                        !.cleaned = TRUE]
                ELSE IF streams[j].stream = "open"
                     THEN [streams[j] EXCEPT !.stream = "destroyed", !.destroys = @ + 1]
                     ELSE streams[j]]

\* a cleanup without the flag: stream.destroy() at every event
cleanup_NoFlag(k, res) ==
  streams' = [streams EXCEPT ![k] =
                [@ EXCEPT !.res = res,
                          !.stream = "destroyed",
                          !.destroys = @ + 1,
                          !.cleaned = TRUE]]

\* cleanup() of the stream request k: stream.destroy(), once
cleanup(k, res) ==
  streams' = [streams EXCEPT ![k] =
                [@ EXCEPT !.res = res,
                          !.stream = IF streams[k].cleaned THEN @ ELSE "destroyed",
                          !.destroys = IF streams[k].cleaned THEN @ ELSE @ + 1,
                          !.cleaned = TRUE]]

\* 'finish' of the response k: the stream has ended and all of it is written
OnResFinish(k) ==
  /\ ~crashed
  /\ streams[k].res = "open"
  /\ streams[k].stream = "open"
  /\ cleanup(k, "finished")
  /\ resp' = NoResp
  /\ UNCHANGED << currentTorrent, magnet, tstate, destroyed, bitfield, destroyCb, tempDir,
                  addPc, timer, addResp, currentPlaybackPosition, crashed >>

\* 'close' of the response k: the client went away, or the finished response
\* closed
OnResClose(k) ==
  /\ ~crashed
  /\ streams[k].res \in {"open", "finished"}
  /\ cleanup(k, "closed")
  /\ resp' = NoResp
  /\ UNCHANGED << currentTorrent, magnet, tstate, destroyed, bitfield, destroyCb, tempDir,
                  addPc, timer, addResp, currentPlaybackPosition, crashed >>

\* the messages of a stream error: the three of a client that went away, and one
\* of a failed read
ErrorMessages == {"Writable stream closed", "read ECONNRESET", "aborted", "EIO"}

\* !includes('Writable stream closed') && !includes('ECONNRESET') && !includes('aborted')
Unexpected(message) ==
  message \notin {"Writable stream closed", "read ECONNRESET", "aborted"}

\* 'error' of the read stream k, which the error has destroyed: the message is
\* logged unless it is one of a client that went away, then cleanup().  The
\* handler leaves the response alone; a 'close' of the response that
\* stream.pipe(res) brings about is a later OnResClose step.
OnStreamError(k, message) ==
  /\ ~crashed
  /\ streams[k].stream = "open"
  /\ cleanup(k, streams[k].res)
  /\ resp' = [op |-> "streamError", stream |-> k, message |-> message,
              logged |-> Unexpected(message)]
  /\ UNCHANGED << currentTorrent, magnet, tstate, destroyed, bitfield, destroyCb, tempDir,
                  addPc, timer, addResp, currentPlaybackPosition, crashed >>

\* the numbers the Range headers of the runs carry
RangeValues == {0, 999}

\* bytes=<start>-<end> and bytes=<start>-
BytesRange(start, end) == BytesEq \o Dec(start) \o <<"-">> \o Dec(end)
BytesFrom(start) == BytesEq \o Dec(start) \o <<"-">>

\* the malformed Range headers of the runs: the start is no number (bytes=abc-),
\* a suffix range (bytes=-5), a unit other than bytes (items=0-5), a list of
\* ranges (bytes=0-5,7-9)
MalformedRanges ==
  {BytesEq \o <<"a", "b", "c", "-">>,
   BytesEq \o <<"-", "5">>,
   <<"i", "t", "e", "m", "s", "=", "0", "-", "5">>,
   BytesEq \o <<"0", "-", "5", ",", "7", "-", "9">>}

\* the Range headers of the runs: none, the well-formed ones, and bytes=abc-,
\* bytes=-5, items=0-5 and bytes=0-5,7-9
RangeHeaders ==
  {<< >>}
    \cup {BytesRange(a, b) : a \in RangeValues, b \in RangeValues}
    \cup {BytesFrom(a) : a \in RangeValues}
    \cup MalformedRanges

\* the path parameters of the runs: 0, 1 and x
FileParams == {<<"0">>, <<"1">>, <<"x">>}

Streaming ==
  \/ \E k \in Streams, param \in FileParams, range \in RangeHeaders : GetStream(k, param, range)
  \/ \E k \in Streams : OnResFinish(k)
  \/ \E k \in Streams : OnResClose(k)
  \/ \E k \in Streams, message \in ErrorMessages : OnStreamError(k, message)

Next == Lifecycle(MaxAdds, Magnets) \/ Playback

\* the availability snapshots of the runs over one downloaded torrent with the
\* magnet m: every set of pieces of a torrent of at most four pieces; of a
\* larger one none, the first half and all
Snapshots(m) ==
  LET total == SumTo(Layouts[m].files, Len(Layouts[m].files))
      n == (total + Layouts[m].pieceLength - 1) \div Layouts[m].pieceLength
  IN IF n <= 4 THEN SUBSET (0..(n - 1))
     ELSE {{}, 0..((n \div 2) - 1), 0..(n - 1)}

\* The server after one add request: its torrent is Ready and current, the
\* request is answered, and some of the pieces have arrived.
InitPieces ==
  \E m \in PieceMagnets : \E have \in Snapshots(m) :
    /\ currentTorrent = 1
    /\ magnet = [t \in Torrents |-> IF t = 1 THEN m ELSE 0]
    /\ tstate = [t \in Torrents |-> IF t = 1 THEN "ready" ELSE "absent"]
    /\ destroyed = [t \in Torrents |-> FALSE]
    /\ bitfield = [t \in Torrents |-> IF t = 1 THEN have ELSE {}]
    /\ destroyCb = [t \in Torrents |-> NoWaiter]
    /\ tempDir = IF have = {} THEN {} ELSE {1}
    /\ addPc = [r \in Requests |-> IF r = 1 THEN "done" ELSE "new"]
    /\ timer = [r \in Requests |-> IF r = 1 THEN "cleared" ELSE "unset"]
    /\ addResp = [r \in Requests |->
                    IF r = 1
                    THEN << [status |-> 200, torrent |-> 1, files |-> Layouts[m].files] >>
                    ELSE << >>]
    /\ currentPlaybackPosition = [fileIndex |-> NullIndex, bytePosition |-> 0]
    /\ streams = [k \in Streams |-> NoStream]
    /\ resp = NoResp
    /\ crashed = FALSE

\* position reports, status polls and add requests without a magnet against
\* that torrent
NextPieces ==
  \/ GetStatus
  \/ \E fileIndex \in FileIndexes, report \in PieceReports :
        PostPlaybackPosition(fileIndex, report[1], report[2])
  \/ AddTorrentRejected

NextRace == Lifecycle(MaxRaceAdds, Magnets)

\* the piece window and the buffer estimate over one downloaded torrent
SpecPieces == InitPieces /\ [][NextPieces]_vars

Spec == Init /\ [][Next]_vars

\* the torrent lifecycle alone, with one more add request
SpecRace == Init /\ [][NextRace]_vars

\* the stream handler reads no bitfield: the download is left out
NextStream == Control(MaxStreamAdds, StreamMagnets) \/ Streaming

\* the stream server over the add and delete requests
SpecStream == Init /\ [][NextStream]_vars

\* the Range headers of the runs over the shared state: none, and bytes=0-
SharedRanges == {<< >>, BytesFrom(0)}

\* the requests that read or write the state the handlers share: add and delete
\* with their callbacks, status polls, position reports and stream requests
NextShared ==
  \/ Control(MaxStreamAdds, StreamMagnets)
  \/ Playback
  \/ \E k \in Streams, param \in FileParams, range \in SharedRanges : GetStream(k, param, range)

SpecShared == Init /\ [][NextShared]_vars

\* ================================================================ claims
UnknownPosition == [fileIndex |-> NullIndex, bytePosition |-> 0]

\* C1: the engine never holds a torrent that is not destroyed other than the one
\* currentTorrent references; so it holds at most one.
C1_OnlyCurrentTorrentLive ==
  \A t \in Torrents : Live(t) => currentTorrent = t

\* C2: a torrent is added to the engine only when no destroy callback is pending:
\* every destroy that began has called back and cleanTempDir has run.
C2_AddAfterCleanup ==
  [][\A r \in Requests :
        (tstate[r] = "absent" /\ tstate'[r] = "fetching")
           => \A t \in Torrents : destroyCb'[t] = NoWaiter]_vars

\* C3: every step that changes currentTorrent leaves the tracked position at
\* (none, 0).
C3_PositionResetOnChange ==
  [][currentTorrent' # currentTorrent => currentPlaybackPosition' = UnknownPosition]_vars

\* C4: an active status response lists the files of one handle, the handle it
\* names; that handle is not one whose destroy the server has started and is
\* waiting for, and the files of a destroyed torrent are never listed.
C4_StatusOneTorrent ==
  (resp.op = "status" /\ resp.active) =>
     /\ \A i \in DOMAIN resp.files : resp.files[i].torrent = resp.torrent
     /\ destroyCb[resp.torrent] = NoWaiter
     /\ (resp.files # << >> => ~destroyed[resp.torrent])

\* C4 witness: the second torrent has replaced the destroyed first one and a
\* status response lists its files
C4_Witness ==
  /\ resp.op = "status" /\ resp.active
  /\ resp.torrent = 2 /\ resp.files # << >>
  /\ destroyed[1]

\* C5: the tracked pair changes only in a successful position report, which
\* leaves the pair (fileIndex, bytePosition) of that report, whole; a status
\* response returns the tracked pair, whole.
C5_LastWriteWins ==
  [][/\ currentPlaybackPosition' # currentPlaybackPosition
          => resp'.op = "position" /\ resp'.status = 200
     /\ (resp'.op = "position" /\ resp'.status = 200)
          => /\ currentPlaybackPosition'.fileIndex = resp'.fileIndex
             /\ currentPlaybackPosition'.bytePosition = resp'.bytePosition
     /\ (resp'.op = "status" /\ resp'.active)
          => /\ resp'.currentPosition = currentPlaybackPosition
             /\ currentPlaybackPosition' = currentPlaybackPosition]_vars

\* C5 witness: a status response shows the pair of a report on the second file,
\* made after a report on the first
C5_Witness ==
  /\ resp.op = "status" /\ resp.active
  /\ resp.currentPosition = [fileIndex |-> 1, bytePosition |-> 2]

\* C6: a position report is answered 404 "No active torrent" when currentTorrent
\* is null or not ready, 404 "File not found" when fileIndex indexes no file of
\* it, and 404 in no other case; a 404 leaves the tracked position as it was and
\* makes no critical() call.
C6_FailedReportChangesNothing ==
  [][resp'.op = "position" =>
       LET noTorrent == IF currentTorrent = 0 THEN TRUE
                        ELSE tstate[currentTorrent] # "ready"
           noFile == IF noTorrent THEN FALSE
                     ELSE resp'.fileIndex \notin 0..(Len(Files(currentTorrent)) - 1)
       IN /\ noTorrent => resp'.status = 404 /\ resp'.error = "No active torrent"
          /\ noFile => resp'.status = 404 /\ resp'.error = "File not found"
          /\ resp'.status = 404 => noTorrent \/ noFile
          /\ resp'.status = 404 =>
                /\ currentPlaybackPosition' = currentPlaybackPosition
                /\ resp'.critical = << >>]_vars

\* C6 witness: a report with an unknown file index is refused while a position
\* is tracked
C6_Witness ==
  /\ resp.op = "position" /\ resp.status = 404 /\ resp.error = "File not found"
  /\ currentPlaybackPosition # UnknownPosition

\* the tracked byte position is one that no report against the file of the
\* currently active torrent gives: it was reported against another torrent
StalePosition ==
  /\ currentTorrent # 0
  /\ currentPlaybackPosition.fileIndex # NullIndex
  /\ HasFile(currentTorrent, currentPlaybackPosition.fileIndex)
  /\ \A ct \in CurrentTimes, d \in Durations :
        currentPlaybackPosition.bytePosition
          # BytePosition(ct, d, Files(currentTorrent)[currentPlaybackPosition.fileIndex + 1])

\* C7: a status response that pairs the active torrent with a position reported
\* against a previous torrent has a bufferAhead within the tracked file:
\* 0 <= bufferAhead <= file.length.
C7_StaleStatusInRange ==
  (resp.op = "status" /\ resp.active /\ StalePosition) =>
     /\ resp.bufferAhead >= 0
     /\ resp.bufferAhead <= Files(currentTorrent)[currentPlaybackPosition.fileIndex + 1]

\* C8: once the 30 s timer of an add request has fired with the request's
\* torrent not ready, the request is answered.
C8_TimeoutAnswers ==
  \A r \in Requests : (timer[r] = "fired" /\ ~IsReady(r)) => addResp[r] # << >>

\* C9: currentTorrent never references a torrent the engine has destroyed after
\* a fault.
C9_NoFaultedCurrent ==
  currentTorrent # 0 => ~destroyed[currentTorrent]


\* the answer in resp is the one the ranged branch owes to the header
\* bytes=<start>-<end> on a file of fileLength bytes
RangedAnswer(start, end, fileLength) ==
  /\ resp.status = 206
  /\ resp.contentRange = <<"b", "y", "t", "e", "s", " ">> \o Dec(start) \o <<"-">> \o Dec(end)
                            \o <<"/">> \o Dec(fileLength)
  /\ resp.acceptRanges = "bytes"
  /\ resp.contentLength = Num((end - start) + 1)
  /\ resp.read = [whole |-> FALSE, start |-> Num(start), end |-> Num(end)]

\* C10: a request GET /stream/<i> for a file i of the Ready current torrent with
\* the header Range: bytes=<start>-<end>, or bytes=<start>- where the end is then
\* fileLength - 1, is answered 206 with Content-Range
\* 'bytes <start>-<end>/<fileLength>', Accept-Ranges 'bytes' and Content-Length
\* end - start + 1, and the engine read is opened over exactly [start, end].
C10_RangedResponse ==
  (resp.op = "stream" /\ currentTorrent # 0)
    => \A i \in 0..1 :
         (IsReady(currentTorrent) /\ resp.param = Dec(i) /\ i < Len(Files(currentTorrent)))
           => LET fileLength == Files(currentTorrent)[i + 1]
              IN /\ \A start \in RangeValues, end \in RangeValues :
                      resp.range = BytesRange(start, end)
                        => RangedAnswer(start, end, fileLength)
                 /\ \A start \in RangeValues :
                      resp.range = BytesFrom(start)
                        => RangedAnswer(start, fileLength - 1, fileLength)

\* bytes=0-999 on the file of 10000 bytes has been answered 206 with
\* Content-Length 1000 and a read over [0, 999]
C10_Witness ==
  /\ resp.op = "stream"
  /\ currentTorrent # 0
  /\ Files(currentTorrent) = <<10000>>
  /\ resp.range = BytesRange(0, 999)
  /\ resp.status = 206
  /\ resp.contentLength = Num(1000)
  /\ resp.read = [whole |-> FALSE, start |-> Num(0), end |-> Num(999)]


\* the answer in resp is the one of the unranged path for a file of fileLength
\* bytes: 200, Content-Length fileLength, a read of the whole file
UnrangedAnswer(fileLength) ==
  /\ resp.status = 200
  /\ resp.contentLength = Num(fileLength)
  /\ resp.read.whole
  /\ resp.contentRange = << >>

\* the stream request answered in resp named the file i of the Ready current
\* torrent
StreamedFile(i) ==
  /\ resp.op = "stream"
  /\ currentTorrent # 0
  /\ IsReady(currentTorrent)
  /\ resp.param = Dec(i)
  /\ i < Len(Files(currentTorrent))

\* C11: a request GET /stream/<i> without a Range header for a file i of the
\* Ready current torrent is answered 200 with Content-Length the length of the
\* file, and the engine read is opened over the whole file.
C11_UnrangedResponse ==
  \A i \in 0..1 :
    (resp.op = "stream" /\ currentTorrent # 0) =>
      ((StreamedFile(i) /\ resp.range = << >>)
         => UnrangedAnswer(Files(currentTorrent)[i + 1]))

\* a request without a Range header for the second file, of 2 bytes, has been
\* answered 200 with Content-Length 2 and a whole read
C11_Witness ==
  /\ resp.op = "stream"
  /\ currentTorrent # 0
  /\ resp.param = <<"1">>
  /\ resp.range = << >>
  /\ resp.status = 200
  /\ resp.contentLength = Num(2)
  /\ resp.read.whole

\* C12: a request GET /stream/<i> for a file i of the Ready current torrent with
\* a malformed Range header is served as one without a header: 200,
\* Content-Length the length of the file, a whole read, and never 206.
C12_MalformedUnranged ==
  \A i \in 0..1 :
    (resp.op = "stream" /\ currentTorrent # 0) =>
      ((StreamedFile(i) /\ resp.range \in MalformedRanges)
         => UnrangedAnswer(Files(currentTorrent)[i + 1]))


\* C13: a read stream that is open belongs to a response that is open: once a
\* response has emitted 'finish' or 'close', its read stream is destroyed.
C13_ClosedResponseDestroysRead ==
  \A k \in Streams :
    /\ streams[k].res \in {"finished", "closed"} => streams[k].stream = "destroyed"
    /\ streams[k].stream = "open" => streams[k].res = "open"

\* after a seek: the first response has closed and its read is destroyed, the
\* second request reads
C13_Witness ==
  /\ streams[1].res = "closed" /\ streams[1].stream = "destroyed"
  /\ streams[2].res = "open" /\ streams[2].stream = "open"

\* C16: a step changes the read stream and the response of at most one stream
\* request: 'close', 'finish' or an error on one request leaves every other
\* request as it was, and a new request leaves the open ones as they were.
C16_StreamsIndependent ==
  [][\A k \in Streams : \A j \in Streams \ {k} :
        streams'[k] # streams[k] => streams'[j] = streams[j]]_vars

\* two requests were open at once on the one file of a torrent; the read of the
\* first has failed and the second still reads
C16_Witness ==
  /\ resp.op = "streamError"
  /\ resp.stream = 1
  /\ streams[1].stream = "destroyed"
  /\ streams[2].res = "open" /\ streams[2].stream = "open"
  /\ streams[1].torrent = streams[2].torrent
  /\ Len(Layout(streams[1].torrent).files) = 1


\* the position report answered 200 in resp was for this file of the current
\* torrent
ReportedFile == FileAt(currentTorrent, resp.fileIndex)

\* the position report in resp was accepted and made a critical() call
Prioritized ==
  /\ resp.op = "position"
  /\ resp.status = 200
  /\ resp.critical # << >>

\* C17: the end of the window passed to critical() is never greater than the
\* index of the last piece that holds a byte of the file, the piece of the byte
\* file.offset + file.length - 1.
C17_WindowEndsInFile ==
  Prioritized =>
    resp.critical[2] <= (ReportedFile.offset + ReportedFile.length - 1)
                          \div PieceLength(currentTorrent)

\* C18: the window passed to critical() starts at the piece of the byte
\* file.offset + bytePosition and holds at most min(ceil(5 MiB / pieceLength), 50)
\* pieces, so never more than 50.
C18_WindowSize ==
  Prioritized =>
    LET pieceLength == PieceLength(currentTorrent)
        size == (resp.critical[2] - resp.critical[1]) + 1
    IN /\ resp.critical[1] = (ReportedFile.offset + resp.bytePosition) \div pieceLength
       /\ size <= Min((AheadBytes + pieceLength - 1) \div pieceLength, AheadCap)
       /\ size <= 50

\* the file i of the current torrent, and the pieces that hold a byte of it
TheFile(i) == FileAt(currentTorrent, i)
Spanned(i) ==
  (TheFile(i).offset \div PieceLength(currentTorrent))
    ..((TheFile(i).offset + TheFile(i).length - 1) \div PieceLength(currentTorrent))

\* the byte positions of the file i the estimate is examined at: every byte of a
\* file of at most 8 bytes, of a longer one the bytes the position reports give
BytesOf(i) ==
  IF TheFile(i).length <= 8 THEN 0..(TheFile(i).length - 1)
  ELSE {BytePosition(ct, d, TheFile(i).length) : ct \in PieceTimes, d \in PieceDurations}
         \cap (0..(TheFile(i).length - 1))

\* the piece that holds the byte b of the file i
PieceOfByte(i, b) == (TheFile(i).offset + b) \div PieceLength(currentTorrent)

\* C19: when every piece that holds a byte of a file is available, the buffer
\* estimate at every byte b of the file is file.length - b, and so is the
\* bufferAhead a status poll returns for a tracked position in the file.
C19_FullFileBuffer ==
  \A i \in 0..(Len(Files(currentTorrent)) - 1) :
    (\A p \in Spanned(i) : BitGet(currentTorrent, p)) =>
       /\ \A b \in BytesOf(i) :
             getBufferAhead(TheFile(i), b) = TheFile(i).length - b
       /\ (/\ resp.op = "status"
           /\ currentPlaybackPosition.fileIndex = i
           /\ currentPlaybackPosition.bytePosition < TheFile(i).length)
            => resp.bufferAhead = TheFile(i).length - currentPlaybackPosition.bytePosition

\* a status poll on the second file of the torrent of three files, which starts
\* and ends inside a piece or on its boundary, tracked at its byte 2, with all
\* of the torrent downloaded, returned 3 of its 5 bytes
C19_Witness ==
  /\ resp.op = "status"
  /\ Files(currentTorrent) = <<3, 5, 4>>
  /\ bitfield[currentTorrent] = 0..2
  /\ currentPlaybackPosition = [fileIndex |-> 1, bytePosition |-> 2]
  /\ resp.bufferAhead = 3

\* the first piece from p on that is not available
RunEnd(p) ==
  CHOOSE q \in p..(p + Cardinality(bitfield[currentTorrent]) + 1) :
    /\ ~BitGet(currentTorrent, q)
    /\ \A r \in p..(q - 1) : BitGet(currentTorrent, r)

\* bufferAhead is 0 at a byte whose piece is not available, and otherwise the
\* bytes from the byte to the end of the run of available pieces that holds it,
\* or to the end of the file
CountsTheRun(i) ==
  \A b \in BytesOf(i) :
    getBufferAhead(TheFile(i), b) =
      IF BitGet(currentTorrent, PieceOfByte(i, b))
      THEN Min(RunEnd(PieceOfByte(i, b)) * PieceLength(currentTorrent),
               TheFile(i).offset + TheFile(i).length) - (TheFile(i).offset + b)
      ELSE 0

\* C20 as stated: in every availability snapshot the buffer estimate does not
\* increase with the byte position in the file, and it is 0 at a byte whose
\* piece is not available and counts only the run of available pieces.
C20_Monotone ==
  \A i \in 0..(Len(Files(currentTorrent)) - 1) :
    /\ \A b1 \in BytesOf(i) : \A b2 \in {b \in BytesOf(i) : b >= b1} :
          getBufferAhead(TheFile(i), b1) >= getBufferAhead(TheFile(i), b2)
    /\ CountsTheRun(i)

\* C20 amended: in every availability snapshot the buffer estimate does not
\* increase from a byte b1 to a byte b2 >= b1 of the file when every piece from
\* the piece of b1 to the piece of b2 is available or the piece of b2 is not; it
\* is 0 at a byte whose piece is not available and counts only the run of
\* available pieces up to the first that is not, or the end of the file; and a
\* status poll returns that estimate for the tracked position.
C20_MonotoneWithinRun ==
  \A i \in 0..(Len(Files(currentTorrent)) - 1) :
    /\ \A b1 \in BytesOf(i) : \A b2 \in {b \in BytesOf(i) : b >= b1} :
          (\/ \A p \in PieceOfByte(i, b1)..PieceOfByte(i, b2) : BitGet(currentTorrent, p)
           \/ ~BitGet(currentTorrent, PieceOfByte(i, b2)))
            => getBufferAhead(TheFile(i), b1) >= getBufferAhead(TheFile(i), b2)
    /\ CountsTheRun(i)
    /\ (/\ resp.op = "status"
        /\ currentPlaybackPosition.fileIndex = i
        /\ currentPlaybackPosition.bytePosition < TheFile(i).length
        /\ ~BitGet(currentTorrent, PieceOfByte(i, currentPlaybackPosition.bytePosition)))
         => resp.bufferAhead = 0

\* a status poll on the file of 6 bytes, tracked at its byte 0 with the first
\* piece missing and the second there, returned 0
C20_Witness ==
  /\ resp.op = "status"
  /\ Files(currentTorrent) = <<6, 2>>
  /\ bitfield[currentTorrent] = {1}
  /\ currentPlaybackPosition = [fileIndex |-> 0, bytePosition |-> 0]
  /\ resp.bufferAhead = 0


\* the position report in resp was accepted
Accepted == resp.op = "position" /\ resp.status = 200

RECURSIVE GCD(_, _)
GCD(a, b) == IF b = 0 THEN a ELSE GCD(b, a % b)

\* q = floor((currentTime / duration) * length) for a duration > 0: with the
\* fraction n / m = currentTime / duration in lowest terms, q * m <= n * length
\* < (q + 1) * m
IsFloorOfShare(q, currentTime, duration, length) ==
  LET g == GCD(currentTime, duration)
      n == currentTime \div g
      m == duration \div g
  IN q * m <= n * length /\ n * length < (q + 1) * m

\* C21: an accepted position report (fileIndex, currentTime, duration) stores and
\* returns bytePosition = floor((currentTime / duration) * file.length) when
\* duration > 0 and 0 otherwise, file being the file at fileIndex of the current
\* torrent.
C21_BytePosition ==
  Accepted =>
    /\ currentPlaybackPosition =
         [fileIndex |-> resp.fileIndex, bytePosition |-> resp.bytePosition]
    /\ IF resp.duration > 0
       THEN IsFloorOfShare(resp.bytePosition, resp.currentTime, resp.duration,
                           ReportedFile.length)
       ELSE resp.bytePosition = 0

\* three eighths of the file of 5 bytes: byte 1
C21_Witness ==
  /\ Accepted
  /\ ReportedFile.length = 5
  /\ resp.currentTime = 3 /\ resp.duration = 8
  /\ resp.bytePosition = 1
  /\ currentPlaybackPosition.bytePosition = 1

\* the report (fileIndex = 0, currentTime = 30, duration = 60) on a file of
\* 100 MiB was accepted
HalfOfHundredMiB ==
  /\ Accepted
  /\ resp.fileIndex = 0 /\ resp.currentTime = 30 /\ resp.duration = 60
  /\ ReportedFile.length = 100 * 1024 * 1024

\* C22 as stated: the report (0, 30, 60) on a file of 100 MiB yields
\* bytePosition 50,000,000.
C22_FiftyMillion == HalfOfHundredMiB => resp.bytePosition = 50000000

\* C22 amended: the report (0, 30, 60) on a file of 100 MiB, 104,857,600 bytes,
\* yields bytePosition 52,428,800, half the length of the file.
C22_HalfOfFile ==
  HalfOfHundredMiB =>
    /\ resp.bytePosition = 52428800
    /\ resp.bytePosition + resp.bytePosition = ReportedFile.length
    /\ currentPlaybackPosition.bytePosition = 52428800

\* that report has been answered
C22_Witness == HalfOfHundredMiB /\ resp.bytePosition = 52428800


\* no position is tracked for the current torrent: the tracked fileIndex is none
\* or indexes no file of it
Untracked ==
  \/ currentPlaybackPosition.fileIndex = NullIndex
  \/ currentPlaybackPosition.fileIndex \notin 0..(Len(Files(currentTorrent)) - 1)

NotInReady ==
  IF currentTorrent = 0 THEN TRUE
  ELSE ~IsReady(currentTorrent) \/ destroyed[currentTorrent]

\* C24: a position report or a stream request made while no torrent is in the
\* state Ready is answered 404 "No active torrent", makes no critical() call and
\* opens no read stream.
C24_OnlyWhenReady ==
  /\ (resp.op = "position" /\ NotInReady)
       => resp.status = 404 /\ resp.error = "No active torrent" /\ resp.critical = << >>
  /\ (resp.op = "stream" /\ NotInReady)
       => resp.status = 404 /\ resp.error = "No active torrent" /\ ~resp.read.whole


\* the position report just answered names no file of the torrent, or its body
\* lacks currentTime or duration
InvalidReport ==
  /\ resp'.op = "position"
  /\ \/ resp'.currentTime = Undefined
     \/ resp'.duration = Undefined
     \/ IF currentTorrent = 0 THEN FALSE ELSE ~HasFile(currentTorrent, resp'.fileIndex)

\* C25: an add request without magnetOrHash is answered 400 and leaves the
\* current torrent as it is, neither destroyed nor replaced; a position report
\* with a bad file index or without currentTime or duration is answered with a
\* 4xx status and an error, and leaves currentPlaybackPosition as it is.
C25_InvalidInputRejected ==
  [][/\ (resp'.op = "add" /\ resp'.status = 400)
          => UNCHANGED << currentTorrent, tstate, destroyed, destroyCb >>
     /\ InvalidReport
          => /\ resp'.status \in 400..499
             /\ resp'.error # ""
             /\ UNCHANGED currentPlaybackPosition]_vars


\* C26: the pieceMap of a status poll with a tracked file has one entry for each
\* piece that holds a byte of the file and no other entry, in ascending order of
\* the piece index, each entry being the availability of its piece.
C26_PieceMapExact ==
  (resp.op = "status" /\ currentTorrent # 0 /\ ~Untracked) =>
    LET i == currentPlaybackPosition.fileIndex
        first == TheFile(i).offset \div PieceLength(currentTorrent)
    IN /\ Len(resp.pieceMap) = Cardinality(Spanned(i))
       /\ \A k \in 1..Len(resp.pieceMap) :
             resp.pieceMap[k] = BitGet(currentTorrent, first + k - 1)


\* C27: a status poll and a stream request leave currentTorrent and
\* currentPlaybackPosition as they are, and a status poll makes no critical()
\* call; currentPlaybackPosition changes only in a position report answered 200.
C27_ReadOnlyHandlers ==
  [][/\ resp'.op \in {"status", "stream"}
          => UNCHANGED << currentTorrent, currentPlaybackPosition >>
     /\ resp'.op = "status" => "critical" \notin DOMAIN resp'
     /\ currentPlaybackPosition' # currentPlaybackPosition
          => resp'.op = "position" /\ resp'.status = 200]_vars

\* a status poll and a stream request were made after a position was stored, and
\* the position is still there
C27_Witness ==
  /\ \/ resp.op = "status" /\ resp.active
     \/ resp.op = "stream" /\ resp.status # 404
  /\ currentPlaybackPosition.fileIndex # NullIndex
  /\ \E k \in Streams : streams[k].res = "open"


C29_DescribesOwnTorrent ==
  \A r \in Requests :
    (addResp[r] # << >> /\ addResp[r][1].status = 200) =>
       /\ addResp[r][1].torrent = r
       /\ addResp[r][1].files = Layouts[magnet[r]].files

\* C30: the 'ready' and timeout callbacks of an add request do not fault: the
\* process never ends in one of them on reading a property of a null
\* currentTorrent.
C30_NoNullDereference ==
  [][(crashed' /\ ~crashed) => currentTorrent # 0]_vars


\* C31: the bufferAhead of a status poll with a tracked file is at least 0 and at
\* most max(0, file.length - bytePosition), whatever position a report has
\* stored, one past the end of the file included.
C31_BufferAheadInRange ==
  (resp.op = "status" /\ currentTorrent # 0 /\ ~Untracked) =>
    LET file == TheFile(currentPlaybackPosition.fileIndex)
    IN /\ 0 <= resp.bufferAhead
       /\ resp.bufferAhead <= Max(0, file.length - currentPlaybackPosition.bytePosition)


\* C32: the critical() call of a position report names a window of pieces of the
\* torrent: 0 <= startPiece <= endPiece <= the index of the last piece, for every
\* position a report can store.
C32_WindowWellFormed ==
  (resp.op = "position" /\ resp.status = 200 /\ resp.critical # << >>) =>
    /\ 0 <= resp.critical[1]
    /\ resp.critical[1] <= resp.critical[2]
    /\ resp.critical[2] \in Pieces(currentTorrent)


\* C33: a 206 answer to a Range header whose start and end are numbers describes
\* a range of the file: 0 <= start <= end <= fileLength - 1, and its
\* Content-Length is end - start + 1, between 1 and fileLength.
C33_ValidRange ==
  (/\ resp.op = "stream"
   /\ resp.status = 206
   /\ ~resp.read.start.nan
   /\ ~resp.read.end.nan) =>
    LET fileLength == Files(currentTorrent)[parseInt(resp.param).v + 1]
        start == resp.read.start.v
        end == resp.read.end.v
    IN /\ 0 <= start
       /\ start <= end
       /\ end <= fileLength - 1
       /\ resp.contentLength = Num((end - start) + 1)
       /\ resp.contentLength.v \in 1..fileLength


\* C34: the cleanup of a stream request calls stream.destroy() at most once,
\* whatever 'finish', 'close' and 'error' events the request gets: an event that
\* comes after the first cleanup leaves the read stream alone.
C34_DestroyedOnce ==
  [][\A k \in Streams :
        /\ streams'[k].destroys <= 1
        /\ streams[k].cleaned => streams'[k].destroys = streams[k].destroys]_vars


\* the cleanup of two requests has run and destroyed their read streams, one on
\* 'finish' and one on an error of the read stream, and the 'close' of both
\* responses, which runs the cleanup again, is still to come
C34_Witness ==
  \E k \in Streams, j \in Streams :
    /\ streams[k].res = "finished" /\ streams[k].cleaned /\ streams[k].destroys = 1
    /\ streams[j].res = "open" /\ streams[j].cleaned /\ streams[j].destroys = 1

====
